---- MODULE Spec2Model ----
(***************************************************************************)
(* A model of GenAICodeUpdater: the block extractor (CodeParser), the file *)
(* resolver and update applier (mapping.py), the backup manager           *)
(* (BackupModule.py), the task tracker (task_tracking.py) and the          *)
(* orchestration in main.py.                                               *)
(*                                                                         *)
(* Text is modelled as a sequence of lines; a string s of the program is   *)
(* the sequence s.split('\n') (a block's content, a file's content).       *)
(* The regular expressions of the program are modelled by their value on   *)
(* the lines of the alphabet Lines below.                                  *)
(***************************************************************************)
EXTENDS Integers, Sequences, FiniteSets, TLC

(***************************************************************************)
(* Bounds of the model.                                                    *)
(***************************************************************************)
MaxChunks == 4
MaxUpdates == 2
MaxBackupFiles == 2
MaxBackupCalls == 2
MaxLegacyLines == 4
MaxTrackerCalls == 3

(***************************************************************************)
(* Program constants.                                                      *)
(***************************************************************************)
MinLines == 8

(***************************************************************************)
(* The lines of text the model feeds the parser.                           *)
(***************************************************************************)
DeclA == "# a.py"
DeclB == "b.py"
\* The fence delimiter: "~~~" stands for three backticks, which a TLA+ string cannot hold.
Fence == "~~~"
Blank == ""
CodeLine == "x = 1"
ImportLine == "import os"
MarkerLine == "# rest of code unchanged"
\* A comment that says code was left out in words none of incomplete_markers matches.
NotChangedLine == "# rest of methods are not changed"

\* The lines of the texts given to the legacy extractor.
HashHelper == "# helper.py"
HashPkgHelper == "# pkg/helper.py"
HashInit == "# __init__.py"
\* "~~~python" stands for three backticks followed by python.
FencePython == "~~~python"
\* A fence line that carries the filename comment.
FenceDecl == "~~~python # helper.py"
\* A filename comment with leading white space.
IndentedDecl == "  # pkg/helper.py"
\* A comment that ends in a file name and is no filename declaration.
SeeLine == "# see helper.py"

Lines == {DeclA, DeclB, Fence, Blank, CodeLine, ImportLine, MarkerLine, NotChangedLine}

\* A body of seven non-blank lines, the first an import: one short of MinLines.
Body7 == <<ImportLine, CodeLine, CodeLine, CodeLine, CodeLine, CodeLine, CodeLine>>

Chunks == {<<l>> : l \in Lines} \cup {Body7}

RECURSIVE Flatten(_)
Flatten(ss) == IF ss = <<>> THEN <<>> ELSE Head(ss) \o Flatten(Tail(ss))

BoundedSeq(S, n) == UNION {[1..k -> S] : k \in 0..n}

\* content.split('\n') of the empty string is one empty line.
SplitLines(text) == IF text = <<>> THEN <<Blank>> ELSE text

Texts == {SplitLines(Flatten(cs)) : cs \in BoundedSeq(Chunks, MaxChunks)}

(***************************************************************************)
(* The project tree. A path is the sequence of its components, relative to *)
(* project_root; <<>> is the empty string (find_file's not-found).         *)
(* A file's content is the sequence of its lines (the string is their      *)
(* '\n'.join; <<>> is the empty string).                                   *)
(***************************************************************************)
HelperPy == "helper.py"
InitPy == "__init__.py"
\* A declared name that differs from helper.py in the case of a letter.
UpperHelperPy == "Helper.py"

Dirs == {<<>>, <<"pkg">>, <<"lib">>}

Paths == {<<HelperPy>>, <<"pkg", HelperPy>>, <<"lib", HelperPy>>,
          <<InitPy>>, <<"pkg", InitPy>>}

NotFound == <<>>

\* The content each file of the tree starts with.
Original(path) ==
    CASE path = <<HelperPy>>        -> <<"import os", "x = 1">>
      [] path = <<"pkg", HelperPy>> -> <<"x = 1">>
      [] path = <<"lib", HelperPy>> -> <<"import os", "    import re", "import sys", "x = 1">>
      [] path = <<InitPy>>          -> <<"x = 1">>
      [] OTHER                      -> <<"import os">>

Trees == {[p \in S |-> Original(p)] : S \in SUBSET Paths}

\* os.walk visits project_root first, then its subdirectories in the order
\* the file system lists them, which the program does not choose.
WalkOrders == {<<<<>>, <<"pkg">>, <<"lib">>>>, <<<<>>, <<"lib">>, <<"pkg">>>>}

\* The declared filenames and contents of the entries given to update_files.
Filenames == {<<HelperPy>>, <<"pkg", HelperPy>>, <<InitPy>>, <<"pkg", InitPy>>}

NewPlain == <<"y = 2">>
NewWithImport == <<"import sys", "y = 2">>
NewWithMarker == <<"# rest of code unchanged", "y = 2">>

NewContents == {NewPlain, NewWithImport, NewWithMarker}

\* The entries the model draws: every content under the bare helper.py, and
\* one entry for each other form of filename.
Entries == {<<<<HelperPy>>, c>> : c \in NewContents}
             \cup {<<f, NewPlain>> : f \in Filenames \cup {<<UpperHelperPy>>}}

UpdateLists == BoundedSeq(Entries, MaxUpdates)

\* A line that holds a form feed before an import statement ("^L" stands for
\* the form feed character, which a page break in a source file puts there).
FormFeedLine == "y = 2^Limport sys"

NewWithFormFeed == <<FormFeedLine, "z = 3">>

\* The lists of one entry, for the runs that apply the same entry twice.
SingleEntryLists ==
    {<<e>> : e \in Entries \cup {<<<<HelperPy>>, NewWithFormFeed>>}}

(***************************************************************************)
(* Pattern matcher (code_parser.py).                                       *)
(***************************************************************************)
\* line.strip(): the alphabet's lines carry no outer whitespace.
Strip(line) == line

\* CodeParser._extract_filename: "" stands for None.
\* "# a.py" matches the first pattern, "b.py" the second (bare filename).
\* "  # pkg/helper.py" matches the first pattern too (leading white space);
\* "~~~python # helper.py" and "# see helper.py" match none of the four.
ExtractFilename(line) ==
    CASE line = DeclA -> "a.py"
      [] line = DeclB -> "b.py"
      [] line = HashHelper -> "helper.py"
      [] line \in {HashPkgHelper, IndentedDecl} -> "pkg/helper.py"
      [] line = HashInit -> "__init__.py"
      [] OTHER -> ""

\* stripped_line.startswith(<three backticks>)
IsFenceLine(line) == Strip(line) = Fence

\* One line matched by one of incomplete_markers ('.' never matches a newline,
\* so a match of the content is a match within one of its lines).
\* "# rest of code unchanged" matches 'rest of .*(?:unchanged|remains|same)';
\* "# rest of methods are not changed" matches none of the six patterns
\* ("not changed" is not "unchanged").
LineHasMarker(line) == line = MarkerLine

\* One line matched by one of the import patterns of _has_imports (re.MULTILINE).
LineHasImport(line) == line \in {ImportLine, "import sys"}

IsIncompleteBlock(content) == \E k \in 1..Len(content) : LineHasMarker(content[k])

HasImports(content) == \E k \in 1..Len(content) : LineHasImport(content[k])

(***************************************************************************)
(* State.                                                                  *)
(***************************************************************************)
VARIABLES
    lines,              \* parse_code_blocks: content.split('\n')
    i,                  \* parse_code_blocks: index of the next line (0-based)
    current_block,      \* <<>> for None, else <<[filename, content, start_line]>>
    in_markdown_fence,
    current_filename,   \* "" for None
    blocks,             \* [update |-> Seq(CodeBlock), manual_update |-> Seq(CodeBlock)]
    ppc                 \* "loop" | "done"

pvars == <<lines, i, current_block, in_markdown_fence, current_filename, blocks, ppc>>

VARIABLES
    files,              \* the project tree: existing path -> content
    walkOrder,          \* the order in which os.walk lists the directories
    mapped_updates,     \* update_files: the list of (filename, code_block)
    uidx,               \* update_files: number of entries the loop has taken
    file_path,          \* update_files: find_file's result for the last entry
    files_updated,
    files_skipped,
    errors,             \* filename -> str(e)
    unmatched_files,
    processed_files,
    update_details,
    upc,                \* "idle" | "loop" | "returned" | "raised"
    run,                \* number of update_files calls made
    outcome,            \* history: how the last iteration ended
    writes,             \* history: the writes made, as [run, idx, path, old, content]
    files0              \* history: the tree before the first call

uvars == <<files, walkOrder, mapped_updates, uidx, file_path, files_updated,
           files_skipped, errors, unmatched_files, processed_files,
           update_details, upc, run, outcome, writes, files0>>

VARIABLES
    backups,            \* the backup root: timestamp -> (relative path -> content)
    clock,              \* the wall clock, in seconds
    file_paths,         \* backup_files: the paths to back up
    bidx,               \* backup_files: number of paths the loop has taken
    files_backed_up,
    timestamp,          \* backup_files: the timestamp naming backup_dir
    bpc,                \* "idle" | "loop" | "returned" | "raised"
    bcalls,             \* number of backup_files calls made
    backups0            \* history: the backup root when the current call was made

bvars == <<backups, clock, file_paths, bidx, files_backed_up, timestamp, bpc, bcalls,
           backups0>>

VARIABLES
    mpc,                \* the caller: "none" | "parsed" | "mapped", and in main "collect" | "backup" | "backing_up" | "parse"
                        \*       | "updating" | "tasks" | "done" | "raised"
    py_files,           \* main: the names collected by os.walk
    llm_content,        \* main: the text of llm_output_file, as its lines
    code_blocks,        \* main: the (filename, code) pairs parsed from it
    tasks               \* the task tracker's table: file_path -> status

mvars == <<mpc, py_files, llm_content, code_blocks, tasks>>

VARIABLES
    db,                 \* TaskTracker: the rows of table tasks, file_path -> [status, created_for_project]
    summary,            \* the dictionary returned by the last get_task_summary call
    last_call,          \* the last call made on the tracker: its name and arguments
    tcalls              \* the number of calls made on the tracker

tvars == <<db, summary, last_call, tcalls>>

vars == <<pvars, uvars, bvars, mvars, tvars>>

(***************************************************************************)
(* Block extractor (CodeParser.parse_code_blocks).                         *)
(***************************************************************************)
RECURSIVE DropLeadingBlank(_)
DropLeadingBlank(ls) ==
    IF ls # <<>> /\ Strip(Head(ls)) = "" THEN DropLeadingBlank(Tail(ls)) ELSE ls

RECURSIVE DropTrailingBlank(_)
DropTrailingBlank(ls) ==
    IF ls # <<>> /\ Strip(ls[Len(ls)]) = ""
    THEN DropTrailingBlank(SubSeq(ls, 1, Len(ls) - 1))
    ELSE ls

\* [l for l in content_lines if l.strip()]
NonBlank(ls) == SelectSeq(ls, LAMBDA l : Strip(l) # "")

\* block_info['content'] is line + '\n' per appended line, so content.split('\n')
\* is the appended lines followed by one empty string.
SplitContent(buffer) == buffer \o <<"">>

NewBlock(filename, start) ==
    [filename |-> filename, content |-> <<>>, start_line |-> start]

\* CodeParser._finalize_block. An empty sequence is the empty string ''.
FinalizeBlock(block_info) ==
    LET content_lines == DropTrailingBlank(DropLeadingBlank(SplitContent(block_info.content)))
    IN [filename    |-> block_info.filename,
        content     |-> content_lines,
        is_complete |-> ~IsIncompleteBlock(content_lines),
        has_imports |-> HasImports(content_lines),
        line_count  |-> Len(NonBlank(content_lines)),
        line_number |-> block_info.start_line]

QualifiesStrict(block) ==
    block.is_complete /\ block.line_count > MinLines /\ block.has_imports

\* if block.is_complete and block.line_count >= self.min_lines and block.has_imports
Qualifies(block) ==
    block.is_complete /\ block.line_count >= MinLines /\ block.has_imports

\* blocks[...].append(block)
Emit(bs, block) ==
    IF Qualifies(block)
    THEN [bs EXCEPT !.update = Append(@, block)]
    ELSE [bs EXCEPT !.manual_update = Append(@, block)]

EmitCurrent(bs, cb) == IF cb # <<>> THEN Emit(bs, FinalizeBlock(cb[1])) ELSE bs

CurLine == lines[i + 1]

\* A line that declares a filename.
ParseFilenameLine ==
    /\ ppc = "loop" /\ i < Len(lines)
    /\ ExtractFilename(CurLine) # ""
    /\ blocks' = EmitCurrent(blocks, current_block)
    /\ current_filename' = ExtractFilename(CurLine)
    /\ current_block' = IF ~in_markdown_fence
                        THEN <<NewBlock(ExtractFilename(CurLine), i + 1)>>
                        ELSE current_block
    /\ i' = i + 1
    /\ UNCHANGED <<lines, in_markdown_fence, ppc>>

\* A markdown fence line.
ParseFenceLine ==
    /\ ppc = "loop" /\ i < Len(lines)
    /\ ExtractFilename(CurLine) = ""
    /\ IsFenceLine(CurLine)
    /\ IF in_markdown_fence
       THEN /\ blocks' = EmitCurrent(blocks, current_block)
            /\ current_block' = <<>>
       ELSE /\ blocks' = blocks
            /\ current_block' = IF current_filename # ""
                                THEN <<NewBlock(current_filename, i + 1)>>
                                ELSE current_block
    /\ in_markdown_fence' = ~in_markdown_fence
    /\ i' = i + 1
    /\ UNCHANGED <<lines, current_filename, ppc>>

\* Any other line.
ParseContentLine ==
    /\ ppc = "loop" /\ i < Len(lines)
    /\ ExtractFilename(CurLine) = ""
    /\ ~IsFenceLine(CurLine)
    /\ current_block' =
         IF current_block # <<>> /\ (in_markdown_fence \/ Strip(CurLine) # "")
         THEN <<[current_block[1] EXCEPT !.content = Append(@, CurLine)]>>
         ELSE current_block
    /\ i' = i + 1
    /\ UNCHANGED <<lines, in_markdown_fence, current_filename, blocks, ppc>>

\* After the loop: handle any remaining block, return blocks.
ParseFinish ==
    /\ ppc = "loop" /\ i = Len(lines)
    /\ blocks' = EmitCurrent(blocks, current_block)
    /\ ppc' = "done"
    /\ UNCHANGED <<lines, i, current_block, in_markdown_fence, current_filename>>

ParserIdle ==
    /\ lines = <<Blank>>
    /\ i = 0
    /\ current_block = <<>>
    /\ in_markdown_fence = FALSE
    /\ current_filename = ""
    /\ blocks = [update |-> <<>>, manual_update |-> <<>>]
    /\ ppc = "done"

ParserInit ==
    /\ lines \in Texts
    /\ i = 0
    /\ current_block = <<>>
    /\ in_markdown_fence = FALSE
    /\ current_filename = ""
    /\ blocks = [update |-> <<>>, manual_update |-> <<>>]
    /\ ppc = "loop"

(***************************************************************************)
(* File resolver (mapping.py, find_file).                                  *)
(***************************************************************************)
Basename(filename) == filename[Len(filename)]

\* os.path.exists(os.path.join(project_root, filename))
Exists(tree, path) == path \in DOMAIN tree

\* for root, _, files in os.walk(project_root): if target_name in files: ...
Matches(tree, order, target_name) ==
    LET dirs == SelectSeq(order, LAMBDA d : Exists(tree, d \o <<target_name>>))
    IN [k \in 1..Len(dirs) |-> dirs[k] \o <<target_name>>]

FindFileByBasenameOnly(tree, order, filename) ==
    LET matches == Matches(tree, order, Basename(filename))
    IN IF matches # <<>> THEN matches[1] ELSE NotFound

FindFileLastMatch(tree, order, filename) ==
    IF filename = <<InitPy>> \/ Len(filename) > 1
    THEN IF Exists(tree, filename) THEN filename ELSE NotFound
    ELSE LET matches == Matches(tree, order, Basename(filename))
         IN IF matches # <<>> THEN matches[Len(matches)] ELSE NotFound

FindFileNoExistsCheck(tree, order, filename) ==
    IF filename = <<InitPy>> \/ Len(filename) > 1
    THEN filename
    ELSE LET matches == Matches(tree, order, Basename(filename))
         IN IF matches # <<>> THEN matches[1] ELSE NotFound

\* normalize_filename of MappingModule.py: filename.replace(' ', '_').lower()
NormalizeFilename(name) == IF name = UpperHelperPy THEN HelperPy ELSE name

\* find_file(project_root, filename)
FindFile(tree, order, filename) ==
    IF filename = <<InitPy>> \/ Len(filename) > 1
    THEN IF Exists(tree, filename) THEN filename ELSE NotFound
    ELSE LET matches == Matches(tree, order, Basename(filename))
         IN IF matches # <<>> THEN matches[1] ELSE NotFound

(***************************************************************************)
(* Update applier (mapping.py, preserve_imports and update_files).         *)
(***************************************************************************)
\* re.match(r'^(?:import|from)\s+\w+', line): an import indented inside a
\* function or a try block does not match.
IsImportStart(line) == line \in {ImportLine, "import sys"}

\* str.splitlines() of the string a line sequence stands for: it also breaks
\* a line at a form feed, where re.MULTILINE's '^' does not match, and it
\* yields no last empty line for a text that ends in a newline.
SplitAtFormFeed(line) ==
    IF line = FormFeedLine THEN <<"y = 2", "import sys">> ELSE <<line>>

SplitlinesOf(content) ==
    LET parts == Flatten([k \in 1..Len(content) |-> SplitAtFormFeed(content[k])])
    IN IF parts # <<>> /\ parts[Len(parts)] = ""
       THEN SubSeq(parts, 1, Len(parts) - 1)
       ELSE parts

PreserveImportsNever(old_content, new_content) == new_content

PreserveImportsAlways(old_content, new_content) ==
    LET import_lines == SelectSeq(old_content, LAMBDA l : l \in {"import os", "import sys"})
    IN IF import_lines # <<>> THEN import_lines \o <<"">> \o new_content ELSE new_content

\* preserve_imports(old_content, new_content)
PreserveImports(old_content, new_content) ==
    IF \E k \in 1..Len(new_content) : IsImportStart(new_content[k])
    THEN new_content
    ELSE LET import_lines == SelectSeq(SplitlinesOf(old_content), IsImportStart)
         IN IF import_lines # <<>>
            THEN import_lines \o <<"">>
                   \o (IF new_content = <<>> THEN <<"">> ELSE new_content)
            ELSE new_content

\* The FileUpdateInfo appended to update_details (the byte sizes, the percent
\* change and the diff text are reporting only and are left out).
UpdateInfo(path, old_content, new_content) ==
    [old_path |-> path, new_path |-> path,
     old_lines |-> Len(SplitlinesOf(old_content)),
     new_lines |-> Len(SplitlinesOf(new_content))]

CurEntry == mapped_updates[uidx + 1]
CurFilename == CurEntry[1]
CurCode == CurEntry[2]
CurPath == FindFile(files, walkOrder, CurFilename)

InLoop == upc = "loop" /\ uidx < Len(mapped_updates)

ProcessedAfterWriteNever(processed, path) == processed

\* processed_files.add(file_path)
ProcessedAfterWrite(processed, path) == processed \cup {path}

AfterErrorAbort == "raised"

\* except Exception as e: ... (the loop goes on with the next entry)
AfterError == "loop"

\* errors[filename] = str(e)
RecordError(errs, filename, msg) ==
    [f \in DOMAIN errs \cup {filename} |-> IF f = filename THEN msg ELSE errs[f]]

\* update_files is called: its locals are initialised.
UpdateCall(list) ==
    /\ mapped_updates' = list
    /\ uidx' = 0
    /\ file_path' = NotFound
    /\ files_updated' = 0
    /\ files_skipped' = 0
    /\ errors' = <<>>
    /\ unmatched_files' = <<>>
    /\ processed_files' = {}
    /\ update_details' = <<>>
    /\ upc' = "loop"
    /\ run' = run + 1
    /\ outcome' = "called"
    /\ UNCHANGED <<files, walkOrder, writes, files0>>

\* if not file_path: unmatched_files.append(filename); files_skipped += 1; continue
UpdateUnmatched ==
    /\ InLoop
    /\ CurPath = NotFound
    /\ file_path' = CurPath
    /\ unmatched_files' = Append(unmatched_files, CurFilename)
    /\ files_skipped' = files_skipped + 1
    /\ uidx' = uidx + 1
    /\ outcome' = "unmatched"
    /\ UNCHANGED <<files, walkOrder, mapped_updates, files_updated, errors,
                   processed_files, update_details, upc, run, writes, files0>>

\* if file_path in processed_files: files_skipped += 1; continue
UpdateDuplicate ==
    /\ InLoop
    /\ CurPath # NotFound
    /\ CurPath \in processed_files
    /\ file_path' = CurPath
    /\ files_skipped' = files_skipped + 1
    /\ uidx' = uidx + 1
    /\ outcome' = "duplicate"
    /\ UNCHANGED <<files, walkOrder, mapped_updates, files_updated, errors,
                   unmatched_files, processed_files, update_details, upc, run,
                   writes, files0>>

\* open(file_path, 'r') or f.read() raises: the except branch.
UpdateReadError ==
    /\ InLoop
    /\ CurPath # NotFound
    /\ CurPath \notin processed_files
    /\ file_path' = CurPath
    /\ errors' = RecordError(errors, CurFilename, "read failed")
    /\ files_skipped' = files_skipped + 1
    /\ uidx' = uidx + 1
    /\ upc' = AfterError
    /\ outcome' = "read_error"
    /\ UNCHANGED <<files, walkOrder, mapped_updates, files_updated,
                   unmatched_files, processed_files, update_details, run,
                   writes, files0>>

\* The file is read and update_info appended; open(file_path, 'w') raises
\* (permission denied): the file keeps its content, the except branch runs.
UpdateWriteError ==
    /\ InLoop
    /\ CurPath # NotFound
    /\ CurPath \notin processed_files
    /\ Exists(files, CurPath)
    /\ file_path' = CurPath
    /\ update_details' = Append(update_details,
           UpdateInfo(CurPath, files[CurPath], PreserveImports(files[CurPath], CurCode)))
    /\ errors' = RecordError(errors, CurFilename, "write failed")
    /\ files_skipped' = files_skipped + 1
    /\ uidx' = uidx + 1
    /\ upc' = AfterError
    /\ outcome' = "write_error"
    /\ UNCHANGED <<files, walkOrder, mapped_updates, files_updated,
                   unmatched_files, processed_files, run, writes, files0>>

\* The file is read, update_info appended, open(file_path, 'w') truncates the
\* file and f.write raises before anything is stored (file size limit, disk
\* full): the file is left empty, the except branch runs.
UpdateWriteErrorTruncated ==
    /\ InLoop
    /\ CurPath # NotFound
    /\ CurPath \notin processed_files
    /\ Exists(files, CurPath)
    /\ update_details' = Append(update_details,
           UpdateInfo(CurPath, files[CurPath], PreserveImports(files[CurPath], CurCode)))
    /\ files' = [files EXCEPT ![CurPath] = <<>>]
    /\ file_path' = CurPath
    /\ errors' = RecordError(errors, CurFilename, "write failed")
    /\ files_skipped' = files_skipped + 1
    /\ uidx' = uidx + 1
    /\ upc' = AfterError
    /\ outcome' = "write_error"
    /\ UNCHANGED <<walkOrder, mapped_updates, files_updated,
                   unmatched_files, processed_files, run, writes, files0>>

\* The file is read, update_info appended and new_content written.
UpdateWrite ==
    /\ InLoop
    /\ CurPath # NotFound
    /\ CurPath \notin processed_files
    /\ Exists(files, CurPath)
    /\ LET new_content == PreserveImports(files[CurPath], CurCode)
       IN /\ update_details' = Append(update_details,
                 UpdateInfo(CurPath, files[CurPath], new_content))
          /\ files' = [files EXCEPT ![CurPath] = new_content]
          /\ writes' = Append(writes, [run |-> run, idx |-> uidx + 1,
                                       path |-> CurPath, old |-> files[CurPath],
                                       content |-> new_content])
    /\ file_path' = CurPath
    /\ files_updated' = files_updated + 1
    /\ processed_files' = ProcessedAfterWrite(processed_files, CurPath)
    /\ uidx' = uidx + 1
    /\ outcome' = "written"
    /\ UNCHANGED <<walkOrder, mapped_updates, files_skipped, errors,
                   unmatched_files, upc, run, files0>>

\* The file is read, update_info appended, new_content written and the entry
\* counted as updated; then one of the print calls that log the update raises
\* (new_content holds a character the encoding of stdout cannot encode): the
\* except branch runs for an entry that is already written.
UpdateLogError ==
    /\ InLoop
    /\ CurPath # NotFound
    /\ CurPath \notin processed_files
    /\ Exists(files, CurPath)
    /\ LET new_content == PreserveImports(files[CurPath], CurCode)
       IN /\ update_details' = Append(update_details,
                 UpdateInfo(CurPath, files[CurPath], new_content))
          /\ files' = [files EXCEPT ![CurPath] = new_content]
          /\ writes' = Append(writes, [run |-> run, idx |-> uidx + 1,
                                       path |-> CurPath, old |-> files[CurPath],
                                       content |-> new_content])
    /\ file_path' = CurPath
    /\ files_updated' = files_updated + 1
    /\ processed_files' = ProcessedAfterWrite(processed_files, CurPath)
    /\ errors' = RecordError(errors, CurFilename, "print failed")
    /\ files_skipped' = files_skipped + 1
    /\ uidx' = uidx + 1
    /\ upc' = AfterError
    /\ outcome' = "log_error"
    /\ UNCHANGED <<walkOrder, mapped_updates, unmatched_files, run, files0>>

\* The loop is over: the result dictionary is returned.
UpdateReturn ==
    /\ upc = "loop"
    /\ uidx = Len(mapped_updates)
    /\ upc' = "returned"
    /\ outcome' = "returned"
    /\ UNCHANGED <<files, walkOrder, mapped_updates, uidx, file_path,
                   files_updated, files_skipped, errors, unmatched_files,
                   processed_files, update_details, run, writes, files0>>

\* A caller applies its list, and applies the same list a second time.
UpdateFirstCall ==
    /\ upc = "idle"
    /\ UpdateCall(mapped_updates)

UpdateSecondCall ==
    /\ upc = "returned"
    /\ run = 1
    /\ UpdateCall(mapped_updates)

UpdateIdle ==
    /\ files = << >>
    /\ walkOrder = <<<<>>, <<"pkg">>, <<"lib">>>>
    /\ mapped_updates = <<>>
    /\ uidx = 0
    /\ file_path = NotFound
    /\ files_updated = 0
    /\ files_skipped = 0
    /\ errors = <<>>
    /\ unmatched_files = <<>>
    /\ processed_files = {}
    /\ update_details = <<>>
    /\ upc = "idle"
    /\ run = 0
    /\ outcome = "none"
    /\ writes = <<>>
    /\ files0 = << >>

UpdateInit(trees, orders, lists) ==
    /\ files \in trees
    /\ walkOrder \in orders
    /\ mapped_updates \in lists
    /\ uidx = 0
    /\ file_path = NotFound
    /\ files_updated = 0
    /\ files_skipped = 0
    /\ errors = <<>>
    /\ unmatched_files = <<>>
    /\ processed_files = {}
    /\ update_details = <<>>
    /\ upc = "idle"
    /\ run = 0
    /\ outcome = "none"
    /\ writes = <<>>
    /\ files0 = files

(***************************************************************************)
(* Backup manager (BackupModule.py, backup_files).                         *)
(***************************************************************************)
\* The paths the model asks backup_files to copy.
BackupPaths == {<<HelperPy>>, <<"pkg", HelperPy>>, <<"lib", HelperPy>>}

BackupLists == BoundedSeq(BackupPaths, MaxBackupFiles)

KeepBackupDir(bk, t) == bk

\* if os.path.exists(backup_dir): shutil.rmtree(backup_dir)
RemoveBackupDir(bk, t) == [u \in DOMAIN bk \ {t} |-> bk[u]]

CopyIntoBackupFlat(bk, t, path, content) ==
    LET dir == IF t \in DOMAIN bk THEN bk[t] ELSE << >>
        flat == <<path[Len(path)]>>
        new == [q \in DOMAIN dir \cup {flat} |-> IF q = flat THEN content ELSE dir[q]]
    IN [u \in DOMAIN bk \cup {t} |-> IF u = t THEN new ELSE bk[u]]

\* os.makedirs(os.path.dirname(backup_path), exist_ok=True);
\* shutil.copy2(file_path, backup_path)
CopyIntoBackup(bk, t, path, content) ==
    LET dir == IF t \in DOMAIN bk THEN bk[t] ELSE << >>
        new == [q \in DOMAIN dir \cup {path} |-> IF q = path THEN content ELSE dir[q]]
    IN [u \in DOMAIN bk \cup {t} |-> IF u = t THEN new ELSE bk[u]]

\* backup_files is called: timestamp = datetime.now().strftime(...), to the second.
BackupCall(list) ==
    /\ file_paths' = list
    /\ bidx' = 0
    /\ files_backed_up' = 0
    /\ timestamp' = clock
    /\ bpc' = "loop"
    /\ bcalls' = bcalls + 1
    /\ backups0' = backups
    /\ UNCHANGED <<backups, clock>>

BackupInLoop == bpc = "loop" /\ bidx < Len(file_paths)

\* if not os.path.exists(file_path): continue
BackupSkipMissing ==
    /\ BackupInLoop
    /\ ~Exists(files, file_paths[bidx + 1])
    /\ bidx' = bidx + 1
    /\ UNCHANGED <<backups, clock, file_paths, files_backed_up, timestamp, bpc, bcalls,
                   backups0>>

\* The file is copied to backup_dir/<relative path>.
BackupCopy ==
    /\ BackupInLoop
    /\ Exists(files, file_paths[bidx + 1])
    /\ backups' = CopyIntoBackup(backups, timestamp, file_paths[bidx + 1],
                                 files[file_paths[bidx + 1]])
    /\ files_backed_up' = files_backed_up + 1
    /\ bidx' = bidx + 1
    /\ UNCHANGED <<clock, file_paths, timestamp, bpc, bcalls, backups0>>

\* makedirs or copy2 raises: the except branch removes backup_dir and re-raises.
BackupCopyRaises ==
    /\ BackupInLoop
    /\ Exists(files, file_paths[bidx + 1])
    /\ backups' = RemoveBackupDir(backups, timestamp)
    /\ bpc' = "raised"
    /\ UNCHANGED <<clock, file_paths, bidx, files_backed_up, timestamp, bcalls, backups0>>

\* return files_backed_up
BackupReturn ==
    /\ bpc = "loop"
    /\ bidx = Len(file_paths)
    /\ bpc' = "returned"
    /\ UNCHANGED <<backups, clock, file_paths, bidx, files_backed_up, timestamp, bcalls,
                   backups0>>

\* A caller backs up a list of paths.
BackupCallAny ==
    /\ bpc \in {"idle", "returned", "raised"}
    /\ bcalls < MaxBackupCalls
    /\ \E list \in BackupLists : BackupCall(list)

\* A second passes between two calls.
Tick ==
    /\ bpc \in {"returned", "raised"}
    /\ clock < bcalls
    /\ clock' = clock + 1
    /\ UNCHANGED <<backups, file_paths, bidx, files_backed_up, timestamp, bpc, bcalls,
                   backups0>>

BackupIdle ==
    /\ backups = << >>
    /\ clock = 0
    /\ file_paths = <<>>
    /\ bidx = 0
    /\ files_backed_up = 0
    /\ timestamp = 0
    /\ bpc = "idle"
    /\ bcalls = 0
    /\ backups0 = << >>

(***************************************************************************)
(* The legacy extractor main uses (code_parser.py,                         *)
(* parse_code_blocks_with_logging), on the lines of the LLM output.        *)
(***************************************************************************)
\* The lines that hold a '#' followed by text ending in .py at the end of the
\* line: r'#\s*([^\n]+\.py)\n' can match there.
IsPyLine(line) ==
    line \in {HashHelper, HashPkgHelper, HashInit, FenceDecl, IndentedDecl, SeeLine}

\* The filename made of the text from the '#' to the end of the line:
\* re.sub(r'^[#/\s]+', '', match.group(1).strip())
CleanFilename(line) ==
    CASE line \in {HashHelper, FenceDecl}        -> <<HelperPy>>
      [] line \in {HashPkgHelper, IndentedDecl}  -> <<"pkg", HelperPy>>
      [] line = SeeLine                          -> <<"see helper.py">>
      [] OTHER                                   -> <<InitPy>>

\* The filename the first pattern makes of a line that follows the fence
\* line: the group is the whole line, and the cleanup leaves a leading fence.
CleanFilenameOfLine(line) ==
    IF line = FenceDecl THEN <<FenceDecl>> ELSE CleanFilename(line)

\* The least index in lo..Len(ls) whose line is in the set, or Len(ls) + 1.
RECURSIVE FirstIndex(_, _, _)
FirstIndex(ls, lo, set) ==
    IF lo > Len(ls) THEN Len(ls) + 1
    ELSE IF ls[lo] \in set THEN lo
    ELSE FirstIndex(ls, lo + 1, set)

\* The lines whose first character is '#', and the lines that hold a fence.
HashLines == {HashHelper, HashPkgHelper, HashInit, SeeLine, MarkerLine, NotChangedLine}
FenceLines == {Fence, FencePython, FenceDecl}

Min(a, b) == IF a <= b THEN a ELSE b

\* code_content = match.group(2).strip(): the blank lines at both ends go,
\* and so does the white space that leads the first line.
StripContent(ls) ==
    LET body == DropTrailingBlank(DropLeadingBlank(ls))
    IN IF body # <<>> /\ body[1] = IndentedDecl
       THEN <<HashPkgHelper>> \o Tail(body)
       ELSE body

\* if not code_content: continue
KeepBlock(filename, content) ==
    IF content = <<>> THEN <<>> ELSE <<<<filename, content>>>>

\* The matches, from line k on, of the first pattern: the fence with its
\* language tag, white space, text ending in .py at the end of a line (the
\* rest of the fence line, or the first non-blank line after it), the content
\* up to the next fence.
RECURSIVE FencedBlocks(_, _)
FencedBlocks(ls, k) ==
    IF k > Len(ls) THEN <<>>
    ELSE LET j == IF ls[k] = FenceDecl THEN k
                  ELSE FirstIndex(ls, k + 1, {ls[x] : x \in 1..Len(ls)} \ {Blank})
             m == FirstIndex(ls, j + 1, FenceLines)
             name == IF j = k THEN CleanFilename(ls[k]) ELSE CleanFilenameOfLine(ls[j])
         IN IF /\ ls[k] \in {FencePython, FenceDecl}
               /\ j < Len(ls)
               /\ IsPyLine(ls[j])
               /\ m <= Len(ls)
            THEN KeepBlock(name, StripContent(SubSeq(ls, j + 1, m - 1)))
                   \o FencedBlocks(ls, m + 1)
            ELSE FencedBlocks(ls, k + 1)

\* The matches, from line k on, of the fourth pattern: a '#', a name ending
\* in .py, a newline, the content up to the next newline followed by '#', the
\* next fence or the end of the text.
RECURSIVE CommentBlocks(_, _)
CommentBlocks(ls, k) ==
    IF k > Len(ls) THEN <<>>
    ELSE LET m == Min(FirstIndex(ls, k + 2, HashLines),
                      FirstIndex(ls, k + 1, FenceLines))
         IN IF IsPyLine(ls[k]) /\ k < Len(ls)
            THEN KeepBlock(CleanFilename(ls[k]), StripContent(SubSeq(ls, k + 1, m - 1)))
                   \o CommentBlocks(ls, m)
            ELSE CommentBlocks(ls, k + 1)

\* parse_code_blocks_with_logging(content); the second and third patterns
\* need a line of ten '#' or a line 'File: ...', which the texts do not hold.
ParseWithLogging(ls) ==
    IF ls = <<Blank>> THEN <<>>
    ELSE FencedBlocks(ls, 1) \o CommentBlocks(ls, 1)

\* The texts the model gives the legacy extractor on its own.
LegacyLines ==
    {HashHelper, HashPkgHelper, FencePython, FenceDecl, IndentedDecl, SeeLine,
     Fence, Blank, "y = 2", "import sys", NotChangedLine}

LegacyTexts == {SplitLines(t) : t \in BoundedSeq(LegacyLines, MaxLegacyLines)}

(***************************************************************************)
(* main (main.py).                                                         *)
(***************************************************************************)
\* The text of an LLM answer that gives each entry as a '#' line naming the
\* file followed by the code.
HashLine(filename) ==
    CASE filename = <<HelperPy>>        -> HashHelper
      [] filename = <<"pkg", HelperPy>> -> HashPkgHelper
      [] OTHER                          -> HashInit

RECURSIVE Render(_)
Render(list) ==
    IF list = <<>> THEN <<>>
    ELSE <<HashLine(Head(list)[1])>> \o Head(list)[2] \o Render(Tail(list))

LlmEntries == {e \in Entries : e[1] \notin {<<"pkg", InitPy>>, <<UpperHelperPy>>}}

\* The texts of llm_output_file: rendered entry lists (the file ends with a
\* newline), an answer with no code, and answers that fence their code.
LlmTexts ==
    {Render(l) \o <<Blank>> : l \in BoundedSeq(LlmEntries, MaxUpdates)}
      \cup {<<"Nothing to change.", Blank>>,
            <<FencePython, HashHelper, "import sys", "y = 2", Fence, Blank>>,
            <<HashHelper, FencePython, "y = 2", Fence, Blank>>}

\* The order in which a directory lists its files.
FileOrder == <<HelperPy, InitPy>>

\* for root, _, files in os.walk(project_root): for file in files:
\*     if file.endswith('.py'): py_files.append(file)
RECURSIVE WalkFiles(_, _)
WalkFiles(tree, order) ==
    IF order = <<>> THEN <<>>
    ELSE SelectSeq(FileOrder, LAMBDA n : Exists(tree, Head(order) \o <<n>>))
           \o WalkFiles(tree, Tail(order))

\* map_code_blocks_to_paths of MappingModule.py, the walk for one block: in
\* every directory of the walk the first file whose normalized name is the
\* normalized basename gives an entry (the break leaves the inner loop only).
RECURSIVE ResolveByWalk(_, _, _, _)
ResolveByWalk(tree, order, name, code) ==
    IF order = <<>> THEN <<>>
    ELSE LET found == SelectSeq(FileOrder, LAMBDA n :
                         /\ Exists(tree, Head(order) \o <<n>>)
                         /\ NormalizeFilename(n) = NormalizeFilename(name))
         IN (IF found # <<>> THEN <<<<Head(order) \o <<found[1]>>, code>>>> ELSE <<>>)
              \o ResolveByWalk(tree, Tail(order), name, code)

\* map_code_blocks_to_paths(parsed_blocks, project_root)
RECURSIVE MapCodeBlocksToPaths(_, _, _)
MapCodeBlocksToPaths(tree, order, parsed_blocks) ==
    IF parsed_blocks = <<>> THEN <<>>
    ELSE LET filename == Head(parsed_blocks)[1]
             code == Head(parsed_blocks)[2]
         IN (IF Exists(tree, filename)
             THEN <<<<filename, code>>>>
             ELSE ResolveByWalk(tree, order, Basename(filename), code))
              \o MapCodeBlocksToPaths(tree, order, Tail(parsed_blocks))

\* map_code_blocks_to_paths called on a list of parsed blocks.
MapCall ==
    /\ mpc = "none"
    /\ mapped_updates' = MapCodeBlocksToPaths(files, walkOrder, code_blocks)
    /\ mpc' = "mapped"
    /\ UNCHANGED <<py_files, llm_content, code_blocks, tasks>>
    /\ UNCHANGED <<files, walkOrder, uidx, file_path, files_updated, files_skipped,
                   errors, unmatched_files, processed_files, update_details, upc,
                   run, outcome, writes, files0>>
    /\ UNCHANGED <<pvars, bvars, tvars>>

MapInit ==
    /\ mpc = "none"
    /\ py_files = <<>>
    /\ llm_content = <<Blank>>
    /\ code_blocks \in UpdateLists
    /\ tasks = << >>

\* full_py_files = [os.path.join(project_root, f) for f in py_files]
FullPyFiles(names) == [k \in 1..Len(names) |-> <<names[k]>>]

\* task_tracker.add_tasks(py_files): a row per name, status 'pending'.
AddTasks(table, names) ==
    [f \in DOMAIN table \cup {<<names[k]>> : k \in 1..Len(names)} |->
        IF f \in {<<names[k]>> : k \in 1..Len(names)} THEN "pending" ELSE table[f]]

\* task_tracker.update_task_status(filename, 'updated') for every entry:
\* UPDATE tasks SET status = ? WHERE file_path = ?
MarkUpdated(table, list) ==
    [f \in DOMAIN table |->
        IF \E k \in 1..Len(list) : list[k][1] = f THEN "updated" ELSE table[f]]

\* Steps 1 to 3: the tracker, the encoding pass (every file is valid UTF-8
\* and is left alone), the walk for the .py files, add_tasks with a tracker
\* that takes the list of paths alone.
MainCollect ==
    /\ mpc = "collect"
    /\ py_files' = WalkFiles(files, walkOrder)
    /\ tasks' = AddTasks(tasks, WalkFiles(files, walkOrder))
    /\ mpc' = "backup"
    /\ UNCHANGED <<llm_content, code_blocks>>
    /\ UNCHANGED <<pvars, uvars, bvars, tvars>>

\* Step 3 against the tracker of task_tracking.py, whose add_tasks takes the
\* project path as a second argument: the call raises, main logs and re-raises.
MainTrackerRaises ==
    /\ mpc = "collect"
    /\ mpc' = "raised"
    /\ UNCHANGED <<py_files, llm_content, code_blocks, tasks>>
    /\ UNCHANGED <<pvars, uvars, bvars, tvars>>

\* Step 4: backup_files(full_py_files, project_root, backup_root).
MainBackup ==
    /\ mpc = "backup"
    /\ BackupCall(FullPyFiles(py_files))
    /\ mpc' = "backing_up"
    /\ UNCHANGED <<py_files, llm_content, code_blocks, tasks>>
    /\ UNCHANGED <<pvars, uvars, tvars>>

\* backup_files raised: main logs the error and re-raises.
MainBackupRaised ==
    /\ mpc = "backing_up"
    /\ bpc = "raised"
    /\ mpc' = "raised"
    /\ UNCHANGED <<py_files, llm_content, code_blocks, tasks>>
    /\ UNCHANGED <<pvars, uvars, bvars, tvars>>

\* Steps 5 and 6: the LLM output is read and parsed; with no code block main
\* logs a warning and returns; otherwise update_files is called.
MainParseAndUpdate ==
    /\ mpc = "backing_up"
    /\ bpc = "returned"
    /\ code_blocks' = ParseWithLogging(llm_content)
    /\ IF ParseWithLogging(llm_content) = <<>>
       THEN /\ mpc' = "done"
            /\ UNCHANGED uvars
       ELSE /\ mpc' = "updating"
            /\ UpdateCall(ParseWithLogging(llm_content))
    /\ UNCHANGED <<py_files, llm_content, tasks>>
    /\ UNCHANGED <<pvars, bvars, tvars>>

\* Steps 7 and 8: every entry's task is set to 'updated'; the reports are written.
MainFinish ==
    /\ mpc = "updating"
    /\ upc = "returned"
    /\ tasks' = MarkUpdated(tasks, mapped_updates)
    /\ mpc' = "done"
    /\ UNCHANGED <<py_files, llm_content, code_blocks>>
    /\ UNCHANGED <<pvars, uvars, bvars, tvars>>

\* parse_code_blocks_with_logging called on its own.
LegacyParseCall ==
    /\ mpc = "none"
    /\ code_blocks' = ParseWithLogging(llm_content)
    /\ mpc' = "parsed"
    /\ UNCHANGED <<py_files, llm_content, tasks>>
    /\ UNCHANGED <<pvars, uvars, bvars, tvars>>

LegacyInit ==
    /\ mpc = "none"
    /\ py_files = <<>>
    /\ llm_content \in LegacyTexts
    /\ code_blocks = <<>>
    /\ tasks = << >>

MainIdle ==
    /\ mpc = "none"
    /\ py_files = <<>>
    /\ llm_content = <<Blank>>
    /\ code_blocks = <<>>
    /\ tasks = << >>

MainInit ==
    /\ mpc = "collect"
    /\ py_files = <<>>
    /\ llm_content \in LlmTexts
    /\ code_blocks = <<>>
    /\ tasks = << >>

(***************************************************************************)
(* The task tracker (task_tracking.py): one table, keyed by file_path.     *)
(***************************************************************************)
Projects == {"/proj/A", "/proj/B"}
TaskPaths == {HelperPy, InitPy}
\* The status argument is any string; "done" is one that no caller passes.
StatusArgs == {"pending", "updated", "skipped", "error", "done"}
PathLists == BoundedSeq(TaskPaths, 2)
\* SQL NULL, None in the returned dictionary; a number n is <<n>>.
None == << >>
NoCall == [op |-> "none", project |-> "", paths |-> <<>>]

ProjectRows(table, project_path) ==
    {f \in DOMAIN table : table[f].created_for_project = project_path}

\* DELETE FROM tasks WHERE created_for_project = ?
ClearProjectTasks(table, project_path) ==
    [f \in DOMAIN table \ ProjectRows(table, project_path) |-> table[f]]

\* INSERT ... ON CONFLICT(file_path) DO UPDATE SET status='pending',
\* error_message=NULL, created_for_project=?  for every path of the list.
TrackerAddTasks(table, paths, project_path) ==
    [f \in DOMAIN table \cup {paths[k] : k \in 1..Len(paths)} |->
        IF f \in {paths[k] : k \in 1..Len(paths)}
        THEN [status |-> "pending", created_for_project |-> project_path]
        ELSE table[f]]

\* UPDATE tasks SET status = ? ... WHERE file_path = ?
UpdateTaskStatus(table, path, status) ==
    [f \in DOMAIN table |-> IF f = path THEN [table[f] EXCEPT !.status = status] ELSE table[f]]

\* SUM(CASE WHEN status = s THEN 1 ELSE 0 END) over the project's rows:
\* NULL when there is no row.
SumStatus(table, project_path, s) ==
    IF ProjectRows(table, project_path) = {} THEN None
    ELSE <<Cardinality({f \in ProjectRows(table, project_path) : table[f].status = s})>>

GetTaskSummary(table, project_path) ==
    [total |-> <<Cardinality(ProjectRows(table, project_path))>>,
     pending |-> SumStatus(table, project_path, "pending"),
     updated |-> SumStatus(table, project_path, "updated"),
     skipped |-> SumStatus(table, project_path, "skipped"),
     error |-> SumStatus(table, project_path, "error")]

TrackerCanCall == tcalls < MaxTrackerCalls

CallClearProjectTasks ==
    /\ TrackerCanCall
    /\ \E project_path \in Projects :
        /\ db' = ClearProjectTasks(db, project_path)
        /\ last_call' = [op |-> "clear_project_tasks", project |-> project_path, paths |-> <<>>]
    /\ tcalls' = tcalls + 1
    /\ UNCHANGED summary

CallAddTasks ==
    /\ TrackerCanCall
    /\ \E paths \in PathLists, project_path \in Projects :
        /\ db' = TrackerAddTasks(db, paths, project_path)
        /\ last_call' = [op |-> "add_tasks", project |-> project_path, paths |-> paths]
    /\ tcalls' = tcalls + 1
    /\ UNCHANGED summary

CallUpdateTaskStatus ==
    /\ TrackerCanCall
    /\ \E path \in TaskPaths, status \in StatusArgs :
        /\ db' = UpdateTaskStatus(db, path, status)
        /\ last_call' = [op |-> "update_task_status", project |-> status, paths |-> <<path>>]
    /\ tcalls' = tcalls + 1
    /\ UNCHANGED summary

CallGetTaskSummary ==
    /\ TrackerCanCall
    /\ \E project_path \in Projects :
        /\ summary' = GetTaskSummary(db, project_path)
        /\ last_call' = [op |-> "get_task_summary", project |-> project_path, paths |-> <<>>]
    /\ tcalls' = tcalls + 1
    /\ UNCHANGED db

\* A tracker on a new database file: _init_db creates the empty table.
TrackerInit ==
    /\ db = << >>
    /\ summary = None
    /\ last_call = NoCall
    /\ tcalls = 0

TrackerIdle == TrackerInit

(***************************************************************************)
(* Specifications.                                                         *)
(***************************************************************************)
InitParser == ParserInit /\ UpdateIdle /\ BackupIdle /\ MainIdle /\ TrackerIdle

NextParser ==
    \/ ParseFilenameLine /\ UNCHANGED <<uvars, bvars, mvars, tvars>>
    \/ ParseFenceLine /\ UNCHANGED <<uvars, bvars, mvars, tvars>>
    \/ ParseContentLine /\ UNCHANGED <<uvars, bvars, mvars, tvars>>
    \/ ParseFinish /\ UNCHANGED <<uvars, bvars, mvars, tvars>>

SpecParser == InitParser /\ [][NextParser]_vars

InitUpdate ==
    ParserIdle /\ UpdateInit(Trees, WalkOrders, UpdateLists) /\ BackupIdle /\ MainIdle /\ TrackerIdle

NextUpdate ==
    \/ UpdateFirstCall /\ UNCHANGED <<pvars, bvars, mvars, tvars>>
    \/ UpdateUnmatched /\ UNCHANGED <<pvars, bvars, mvars, tvars>>
    \/ UpdateDuplicate /\ UNCHANGED <<pvars, bvars, mvars, tvars>>
    \/ UpdateReadError /\ UNCHANGED <<pvars, bvars, mvars, tvars>>
    \/ UpdateWriteError /\ UNCHANGED <<pvars, bvars, mvars, tvars>>
    \/ UpdateWriteErrorTruncated /\ UNCHANGED <<pvars, bvars, mvars, tvars>>
    \/ UpdateWrite /\ UNCHANGED <<pvars, bvars, mvars, tvars>>
    \/ UpdateLogError /\ UNCHANGED <<pvars, bvars, mvars, tvars>>
    \/ UpdateReturn /\ UNCHANGED <<pvars, bvars, mvars, tvars>>

SpecUpdate == InitUpdate /\ [][NextUpdate]_vars

\* The same one-entry list applied in two successive runs.
InitRerun ==
    ParserIdle /\ UpdateInit(Trees, WalkOrders, SingleEntryLists) /\ BackupIdle /\ MainIdle /\ TrackerIdle

NextRerun ==
    \/ UpdateFirstCall /\ UNCHANGED <<pvars, bvars, mvars, tvars>>
    \/ UpdateSecondCall /\ UNCHANGED <<pvars, bvars, mvars, tvars>>
    \/ UpdateUnmatched /\ UNCHANGED <<pvars, bvars, mvars, tvars>>
    \/ UpdateReadError /\ UNCHANGED <<pvars, bvars, mvars, tvars>>
    \/ UpdateWriteError /\ UNCHANGED <<pvars, bvars, mvars, tvars>>
    \/ UpdateWriteErrorTruncated /\ UNCHANGED <<pvars, bvars, mvars, tvars>>
    \/ UpdateWrite /\ UNCHANGED <<pvars, bvars, mvars, tvars>>
    \/ UpdateLogError /\ UNCHANGED <<pvars, bvars, mvars, tvars>>
    \/ UpdateReturn /\ UNCHANGED <<pvars, bvars, mvars, tvars>>

SpecRerun == InitRerun /\ [][NextRerun]_vars

\* The backup manager called on its own, on a tree that does not change.
BackupTrees == {[p \in S |-> Original(p)] : S \in SUBSET BackupPaths}

InitBackup ==
    /\ ParserIdle
    /\ UpdateInit(BackupTrees, WalkOrders, {<<>>})
    /\ BackupIdle
    /\ MainIdle
    /\ TrackerIdle

NextBackup ==
    \/ BackupCallAny /\ UNCHANGED <<pvars, uvars, mvars, tvars>>
    \/ BackupSkipMissing /\ UNCHANGED <<pvars, uvars, mvars, tvars>>
    \/ BackupCopy /\ UNCHANGED <<pvars, uvars, mvars, tvars>>
    \/ BackupCopyRaises /\ UNCHANGED <<pvars, uvars, mvars, tvars>>
    \/ BackupReturn /\ UNCHANGED <<pvars, uvars, mvars, tvars>>
    \/ Tick /\ UNCHANGED <<pvars, uvars, mvars, tvars>>

SpecBackup == InitBackup /\ [][NextBackup]_vars

\* One run of main on a project tree and an LLM output file.
InitMain ==
    /\ ParserIdle
    /\ UpdateInit(Trees, WalkOrders, {<<>>})
    /\ BackupIdle
    /\ MainInit
    /\ TrackerIdle

NextMain ==
    \/ MainCollect
    \/ MainTrackerRaises
    \/ MainBackup
    \/ BackupSkipMissing /\ UNCHANGED <<pvars, uvars, mvars, tvars>>
    \/ BackupCopy /\ UNCHANGED <<pvars, uvars, mvars, tvars>>
    \/ BackupCopyRaises /\ UNCHANGED <<pvars, uvars, mvars, tvars>>
    \/ BackupReturn /\ UNCHANGED <<pvars, uvars, mvars, tvars>>
    \/ MainBackupRaised
    \/ MainParseAndUpdate
    \/ UpdateUnmatched /\ UNCHANGED <<pvars, bvars, mvars, tvars>>
    \/ UpdateDuplicate /\ UNCHANGED <<pvars, bvars, mvars, tvars>>
    \/ UpdateReadError /\ UNCHANGED <<pvars, bvars, mvars, tvars>>
    \/ UpdateWriteError /\ UNCHANGED <<pvars, bvars, mvars, tvars>>
    \/ UpdateWriteErrorTruncated /\ UNCHANGED <<pvars, bvars, mvars, tvars>>
    \/ UpdateWrite /\ UNCHANGED <<pvars, bvars, mvars, tvars>>
    \/ UpdateLogError /\ UNCHANGED <<pvars, bvars, mvars, tvars>>
    \/ UpdateReturn /\ UNCHANGED <<pvars, bvars, mvars, tvars>>
    \/ MainFinish

SpecMain == InitMain /\ [][NextMain]_vars

\* The path mapper applied to a list of parsed blocks.
InitMap ==
    ParserIdle /\ UpdateInit(Trees, WalkOrders, {<<>>}) /\ BackupIdle /\ MapInit /\ TrackerIdle

NextMap == MapCall

SpecMap == InitMap /\ [][NextMap]_vars

\* The legacy extractor applied to a text.
InitLegacy == ParserIdle /\ UpdateIdle /\ BackupIdle /\ LegacyInit /\ TrackerIdle

NextLegacy == LegacyParseCall

SpecLegacy == InitLegacy /\ [][NextLegacy]_vars

\* Calls made on one TaskTracker, in any order.
InitTracker == ParserIdle /\ UpdateIdle /\ BackupIdle /\ MainIdle /\ TrackerInit

NextTracker ==
    \/ CallClearProjectTasks /\ UNCHANGED <<pvars, uvars, bvars, mvars>>
    \/ CallAddTasks /\ UNCHANGED <<pvars, uvars, bvars, mvars>>
    \/ CallUpdateTaskStatus /\ UNCHANGED <<pvars, uvars, bvars, mvars>>
    \/ CallGetTaskSummary /\ UNCHANGED <<pvars, uvars, bvars, mvars>>

SpecTracker == InitTracker /\ [][NextTracker]_vars

(***************************************************************************)
(* Properties of the block extractor.                                      *)
(***************************************************************************)
Emitted == {blocks.update[k] : k \in 1..Len(blocks.update)}
             \cup {blocks.manual_update[k] : k \in 1..Len(blocks.manual_update)}

\* C3: every block in 'update' or 'manual_update' has non-empty content; a
\* declaration whose trimmed buffer is empty at finalization yields no block.
C3_EmittedContentNonEmpty == \A b \in Emitted : b.content # <<>>

\* What C10 asks of a block of 'update', read off the block's content.
AutoUpdatable(b) ==
    /\ b.is_complete
    /\ Cardinality({k \in 1..Len(b.content) : b.content[k] # Blank}) >= 8
    /\ \E k \in 1..Len(b.content) : b.content[k] = ImportLine

\* C10: a block is in 'update' iff it is complete, has at least min_lines (8)
\* non-blank lines and has an import statement; otherwise it is in
\* 'manual_update'; no block is in both lists.
C10_Classification ==
    /\ \A k \in 1..Len(blocks.update) : AutoUpdatable(blocks.update[k])
    /\ \A k \in 1..Len(blocks.manual_update) : ~AutoUpdatable(blocks.manual_update[k])
    /\ \A j \in 1..Len(blocks.update) : \A k \in 1..Len(blocks.manual_update) :
          blocks.update[j] # blocks.manual_update[k]

\* A run that put a block of exactly eight non-blank lines in 'update' and
\* another block in 'manual_update'.
C10_Witness ==
    /\ ppc = "done"
    /\ \E k \in 1..Len(blocks.update) : blocks.update[k].line_count = 8
    /\ blocks.manual_update # <<>>

\* A comment of the content that says part of the code was left out.
SaysCodeOmitted(content) ==
    \E k \in 1..Len(content) :
        content[k] \in {"# rest of code unchanged", "# rest of methods are not changed"}

\* C11: a block whose content holds an incomplete-marker phrase, such as the
\* comment '# rest of methods are not changed', is emitted with is_complete =
\* FALSE; a block with no such phrase is emitted with is_complete = TRUE, also
\* without an import line or with fewer than min_lines lines.
C11_MarkerMeansIncomplete ==
    \A b \in Emitted : b.is_complete <=> ~SaysCodeOmitted(b.content)

\* A filename-declaration line: a line the pattern matcher extracts a
\* filename from, or a fence line that carries the filename comment.
IsDeclaration(line) == ExtractFilename(line) # "" \/ line = "~~~python # helper.py"

NoDeclaration(text) == \A k \in 1..Len(text) : ~IsDeclaration(text[k])

\* C12: a text with no filename-declaration line yields zero blocks:
\* CodeParser.parse_code_blocks leaves 'update' and 'manual_update' empty and
\* parse_code_blocks_with_logging returns an empty list.
C12_NoDeclarationNoBlocks ==
    /\ NoDeclaration(lines) => blocks = [update |-> <<>>, manual_update |-> <<>>]
    /\ (mpc = "parsed" /\ NoDeclaration(llm_content)) => code_blocks = <<>>

\* The lines that label a code block with a filename, and the file they name.
LabelLines == {"# helper.py", "# pkg/helper.py", "  # pkg/helper.py", "~~~python # helper.py"}

LabelName(line) ==
    IF line \in {"# helper.py", "~~~python # helper.py"}
    THEN <<"helper.py">>
    ELSE <<"pkg", "helper.py">>

\* A text of labelled code blocks: every label is followed at once by a line
\* of code, and no other comment occurs in it.
WellLabelled(text) ==
    \A k \in 1..Len(text) :
        /\ text[k] \notin {"# see helper.py", "# rest of methods are not changed"}
        /\ text[k] \in LabelLines =>
              k < Len(text) /\ text[k + 1] \in {"y = 2", "import sys"}

\* The filenames of the labels of a text, in the order of the text.
RECURSIVE LabelNames(_)
LabelNames(text) ==
    IF text = <<>> THEN <<>>
    ELSE (IF Head(text) \in LabelLines THEN <<LabelName(Head(text))>> ELSE <<>>)
           \o LabelNames(Tail(text))

\* C19: parse_code_blocks_with_logging returns exactly one (filename, content)
\* pair per labelled code block of the text, in order: two comment-labelled
\* blocks give two pairs, a fenced block whose fence line carries the label
\* gives one pair; no block is reported twice and no two blocks are merged.
C19_OnePairPerBlock ==
    (mpc = "parsed" /\ WellLabelled(llm_content)) =>
        [k \in 1..Len(code_blocks) |-> code_blocks[k][1]] = LabelNames(llm_content)

\* C22: a filename declaration met inside a fence behaves like one met
\* outside: from that line on a block under the newly declared filename is
\* collecting, so inside a fence with a declared filename the active block
\* exists and carries the most recently declared filename, never an earlier one.
C22_DeclarationInFence ==
    (ppc = "loop" /\ in_markdown_fence /\ current_filename # "") =>
        /\ current_block # <<>>
        /\ current_block[1].filename = current_filename

\* The lines of an active block's buffer are in block b, under the same filename.
KeptIn(b, block_info) ==
    /\ b.filename = block_info.filename
    /\ \A k \in 1..Len(block_info.content) :
          Strip(block_info.content[k]) # "" =>
              \E j \in 1..Len(b.content) : b.content[j] = block_info.content[k]

\* The step replaces or clears an active block whose buffer holds a non-blank line.
GivesUpBuffer ==
    /\ current_block # <<>>
    /\ NonBlank(current_block[1].content) # <<>>
    /\ \/ current_block' = <<>>
       \/ Len(current_block'[1].content) < Len(current_block[1].content)

\* C23: the buffer of an active block is only ever given up by finalizing it:
\* whenever a step replaces or clears an active block, the lines of its buffer
\* are, apart from trimmed blank lines, in the content of an emitted block
\* with that block's filename, also when the step is the opening of a fence.
C23_BufferOnlyGivenUpByFinalize ==
    [][GivesUpBuffer => \E b \in Emitted' : KeptIn(b, current_block[1])]_vars

\* The number of filename-declaration lines of a text.
DeclarationCount(text) ==
    Cardinality({k \in 1..Len(text) : ExtractFilename(text[k]) # ""})

\* C25: parse_code_blocks emits at most one block per filename-declaration
\* line: the blocks in 'update' plus those in 'manual_update' never outnumber
\* the declaration lines of the input, whatever fences open and close.
C25_AtMostOneBlockPerDeclaration ==
    Len(blocks.update) + Len(blocks.manual_update) <= DeclarationCount(lines)

(***************************************************************************)
(* Properties of the update applier and the file resolver.                 *)
(***************************************************************************)
\* The paths written so far in the current update_files run.
WrittenThisRun == {writes[k].path : k \in {j \in 1..Len(writes) : writes[j].run = run}}

\* A skip-indicator phrase in a standalone comment line.
HasSkipComment(content) ==
    \E k \in 1..Len(content) : content[k] = "# rest of code unchanged"

\* C4: update_files does not write an entry whose content carries a
\* skip-indicator phrase in a standalone comment line.
C4_SkipIndicatorNotWritten ==
    \A k \in 1..Len(writes) : ~HasSkipComment(mapped_updates[writes[k].idx][2])

\* An iteration of the loop of update_files.
Iteration == InLoop /\ uidx' = uidx + 1

\* C5: in one run each file is written at most once: a later entry that
\* resolves to a path already written is skipped (files_skipped incremented,
\* nothing written), and the file keeps the content of the first written entry.
C5_WrittenOnce ==
    /\ [](\A k \in 1..Len(writes) :
            writes[k].run = run => files[writes[k].path] = writes[k].content)
    /\ [][(Iteration /\ CurPath \in WrittenThisRun) =>
            /\ files' = files
            /\ writes' = writes
            /\ files_skipped' = files_skipped + 1
            /\ files_updated' = files_updated]_vars

\* The second of two entries was skipped as a duplicate of the first, written one.
C5_Witness ==
    /\ outcome = "duplicate"
    /\ uidx = 2
    /\ Len(writes) = 1
    /\ mapped_updates[1][2] # mapped_updates[2][2]
    /\ files[writes[1].path] = PreserveImports(files0[writes[1].path], mapped_updates[1][2])

\* C6: when reading or writing the file of an entry raises, the error is
\* recorded under errors[filename], files_skipped is incremented, the loop goes
\* on with the later entries and update_files returns without raising.
C6_ErrorsDoNotAbort ==
    /\ [](upc # "raised")
    /\ [](upc = "returned" => uidx = Len(mapped_updates))
    /\ [][(Iteration /\ outcome' \in {"read_error", "write_error"}) =>
            /\ CurFilename \in DOMAIN errors'
            /\ files_skipped' = files_skipped + 1
            /\ upc' = "loop"]_vars

\* The first entry failed, the second was written, and the call returned.
C6_Witness ==
    /\ upc = "returned"
    /\ Len(mapped_updates) = 2
    /\ DOMAIN errors = {mapped_updates[1][1]}
    /\ Len(writes) = 1 /\ writes[1].idx = 2
    /\ files_skipped = 1 /\ files_updated = 1

\* No file of the tree answers the declared filename: the exact relative path
\* for '__init__.py' and for a name with a separator, the basename otherwise.
Unresolvable(filename) ==
    IF filename = <<InitPy>> \/ Len(filename) > 1
    THEN filename \notin DOMAIN files
    ELSE \A d \in Dirs : (d \o filename) \notin DOMAIN files

\* C7: an entry whose filename cannot be resolved is appended to
\* unmatched_files and counted as skipped; no file is written, no error is
\* recorded for it, and the loop goes on.
C7_UnmatchedRecorded ==
    [][(Iteration /\ Unresolvable(CurFilename)) =>
        /\ unmatched_files' = Append(unmatched_files, CurFilename)
        /\ files_skipped' = files_skipped + 1
        /\ files_updated' = files_updated
        /\ files' = files
        /\ errors' = errors
        /\ upc' = "loop"]_vars

\* The first entry was unmatched and the second entry was then written.
C7_Witness ==
    /\ upc = "returned"
    /\ Len(mapped_updates) = 2
    /\ unmatched_files = <<mapped_updates[1][1]>>
    /\ Len(writes) = 1 /\ writes[1].idx = 2
    /\ errors = <<>>

\* C8: for '__init__.py' and for a filename with a path separator find_file
\* returns project_root/filename when that exact path exists and not-found
\* otherwise, whatever same-named files lie elsewhere in the tree.
C8_ExactPathOnly ==
    (upc \in {"loop", "returned"} /\ uidx > 0) =>
        LET f == mapped_updates[uidx][1]
        IN (f = <<InitPy>> \/ Len(f) > 1) =>
             file_path = IF f \in DOMAIN files THEN f ELSE NotFound

\* Key '__init__.py' was unmatched although pkg/__init__.py exists, and key
\* pkg/__init__.py was then resolved to that file and written.
C8_Witness ==
    /\ upc = "returned"
    /\ <<InitPy>> \notin DOMAIN files
    /\ mapped_updates = <<<<<<InitPy>>, NewPlain>>, <<<<"pkg", InitPy>>, NewPlain>>>>
    /\ unmatched_files = <<<<InitPy>>>>
    /\ Len(writes) = 1 /\ writes[1].path = <<"pkg", InitPy>>

\* The files of the tree that share a basename.
Candidates(name) == {p \in DOMAIN files0 : Basename(p) = name}

IsBare(filename) == Len(filename) = 1 /\ filename # <<InitPy>>

DirOf(path) == SubSeq(path, 1, Len(path) - 1)

\* The position of a directory in the walk.
WalkIndex(d) == CHOOSE k \in 1..Len(walkOrder) : walkOrder[k] = d

ImportStyleLines(content) ==
    SelectSeq(content, LAMBDA l : l \in {"import os", "import sys"})

\* What the claim says is written for the old content of the file and the
\* declared new content.
ContentToWrite(old, new) ==
    IF ImportStyleLines(new) = <<>> /\ ImportStyleLines(old) # <<>>
    THEN ImportStyleLines(old) \o <<"">> \o new
    ELSE new

\* C13: the content update_files writes is preserve_imports(old, new): when
\* new has no import-style line and the old content on disk has one, the old
\* import lines in their order, one blank line, then new; in every other case
\* exactly new.
C13_WrittenContent ==
    \A k \in 1..Len(writes) :
        writes[k].run = 1 =>
            writes[k].content = ContentToWrite(writes[k].old,
                                               mapped_updates[writes[k].idx][2])

\* A run that wrote the new content under the two import lines of the old
\* content, which also held an indented import between them.
C13_Witness ==
    /\ upc = "returned"
    /\ \E k \in 1..Len(writes) :
          /\ writes[k].path = <<"lib", "helper.py">>
          /\ writes[k].content = <<"import os", "import sys", "", "y = 2">>
          /\ files[writes[k].path] = writes[k].content

\* Entry k of the list declares a filename whose basename is the basename of
\* exactly one file p of the tree, the import-preservation rule does not
\* apply to it, no earlier entry was written to p and the run met no error.
RoundTripCase(k, p) ==
    /\ Candidates(Basename(mapped_updates[k][1])) = {p}
    /\ \/ ImportStyleLines(mapped_updates[k][2]) # <<>>
       \/ ImportStyleLines(files0[p]) = <<>>
    /\ \A j \in 1..Len(writes) : writes[j].path = p => writes[j].idx >= k
    /\ DOMAIN errors = {}

\* Entry k was counted as updated and p holds its declared content.
RoundTrip(k, p) ==
    /\ \E j \in 1..Len(writes) : writes[j].idx = k /\ writes[j].path = p
    /\ files_updated >= 1
    /\ files[p] = mapped_updates[k][2]

C15_SecondRunSameContent ==
    \A j, k \in 1..Len(writes) :
        (writes[j].run = 1 /\ writes[k].run = 2 /\ writes[j].path = writes[k].path)
            => writes[k].content = writes[j].content

\* The files whose normalized basename is the normalized basename of the name.
NormalizedMatches(name) ==
    {p \in DOMAIN files : NormalizeFilename(Basename(p)) = NormalizeFilename(name)}

\* C18: when no file of the tree has exactly the declared basename, find_file
\* compares the lowercased, space-to-underscore normalized basenames and
\* returns the candidate if exactly one matches; it reports not-found only
\* when none, or more than one, matches after normalization.
C18_NormalizedFallback ==
    (InLoop /\ Len(CurFilename) = 1
            /\ \A p \in DOMAIN files : Basename(p) # Basename(CurFilename)) =>
        IF Cardinality(NormalizedMatches(Basename(CurFilename))) = 1
        THEN CurPath \in NormalizedMatches(Basename(CurFilename))
        ELSE CurPath = NotFound

\* The block declares a path that exists, or its normalized basename is the
\* normalized name of a file of the tree.
HasMatch(block) ==
    Exists(files, block[1]) \/ NormalizedMatches(Basename(block[1])) # {}

\* C20: map_code_blocks_to_paths returns at most one (path, code) entry per
\* parsed block, in input order: a block with a match maps to a single
\* existing file, a block with no match contributes no entry.
C20_OneEntryPerBlock ==
    mpc = "mapped" =>
        LET matched == SelectSeq(code_blocks, HasMatch)
        IN /\ Len(mapped_updates) = Len(matched)
           /\ \A k \in 1..Len(mapped_updates) :
                 /\ k <= Len(matched) => mapped_updates[k][2] = matched[k][2]
                 /\ Exists(files, mapped_updates[k][1])

\* C24: update_files returns files_updated + files_skipped equal to the number
\* of entries of mapped_updates: each entry is counted exactly once, as updated
\* or as skipped, whatever resolution failures, duplicates and errors occur.
C24_EveryEntryCountedOnce ==
    upc = "returned" => files_updated + files_skipped = Len(mapped_updates)

\* The entries of the run counted as updated and not recorded as failed.
UpdatedPaths ==
    {writes[k].path : k \in {j \in 1..Len(writes) :
        mapped_updates[writes[j].idx][1] \notin DOMAIN errors}}

\* C26: update_files changes the content of no file other than the resolved
\* paths of the entries it counts as updated: the files of unmatched,
\* duplicate-skipped and errored entries, and every other file of the project,
\* have the same content after the run as before it.
C26_OnlyUpdatedFilesChange ==
    upc = "returned" =>
        \A p \in DOMAIN files : files[p] # files0[p] => p \in UpdatedPaths

\* C27: update_details has exactly one record per file written in the run:
\* its length equals files_updated, and every record is the record of a write
\* of the run, so that a file whose read or write failed has none.
C27_OneDetailPerWrittenFile ==
    upc = "returned" =>
        /\ Len(update_details) = files_updated
        /\ \A k \in 1..Len(update_details) :
              \E j \in 1..Len(writes) :
                  writes[j].run = run /\ writes[j].path = update_details[k].old_path

(***************************************************************************)
(* Properties of the backup manager and of main.                           *)
(***************************************************************************)
\* C2: when a copy fails during backup_files, also after some files were
\* copied, the call raises and the backup directory of the call no longer
\* exists: the backup root holds no entry from the failed call.
C2_FailedBackupRemoved == bpc = "raised" => timestamp \notin DOMAIN backups

\* A call that raised after it had copied a file.
C2_Witness == bpc = "raised" /\ files_backed_up >= 1

\* The backup set of the run of main.
BackupSet == IF timestamp \in DOMAIN backups THEN backups[timestamp] ELSE << >>

\* C17: a backup_files call that succeeds has copied every listed file that
\* exists to backup_root/<timestamp>/<path relative to project_root> with the
\* content of the original, has skipped the listed files that do not exist,
\* and returns the number of copies it made.
C17_BackupLayout ==
    bpc = "returned" =>
        /\ \A k \in 1..Len(file_paths) :
              Exists(files, file_paths[k]) =>
                  /\ file_paths[k] \in DOMAIN BackupSet
                  /\ BackupSet[file_paths[k]] = files[file_paths[k]]
        /\ \A k \in 1..Len(file_paths) :
              ~Exists(files, file_paths[k]) => file_paths[k] \notin DOMAIN BackupSet
        /\ files_backed_up =
              Cardinality({k \in 1..Len(file_paths) : Exists(files, file_paths[k])})

\* A successful call on a file of a subdirectory and a file that does not exist.
C17_Witness ==
    /\ bpc = "returned"
    /\ file_paths = <<<<"pkg", "helper.py">>, <<"lib", "helper.py">>>>
    /\ DOMAIN BackupSet = {<<"pkg", "helper.py">>}
    /\ ~Exists(files, <<"lib", "helper.py">>)
    /\ files_backed_up = 1

\* C28: a backup_files call that fails removes only what that call itself
\* created: every backup directory and file that was under the backup root
\* when the call was made, produced by an earlier successful call, is still
\* there with unchanged content after the failed call, however closely in time
\* the two calls follow each other.
C28_FailedBackupKeepsEarlierBackups ==
    bpc = "raised" =>
        \A t \in DOMAIN backups0 :
            /\ t \in DOMAIN backups
            /\ \A q \in DOMAIN backups0[t] :
                  q \in DOMAIN backups[t] /\ backups[t][q] = backups0[t][q]

WrittenFilenames == {mapped_updates[writes[k].idx][1] : k \in 1..Len(writes)}

Statuses == {"pending", "updated", "skipped", "error"}

CountStatus(project_path, s) ==
    Cardinality({f \in DOMAIN db : /\ db[f].created_for_project = project_path
                                   /\ db[f].status = s})

\* C21: after any sequence of add_tasks, update_task_status and
\* clear_project_tasks calls every task's status is one of pending, updated,
\* skipped, error, and get_task_summary(project) returns for each of the four
\* statuses the number of the project's tasks in that status (0 when there
\* are none), with total equal to the sum of the four counts.
C21_StatusesAndSummary ==
    /\ \A f \in DOMAIN db : db[f].status \in Statuses
    /\ last_call.op = "get_task_summary" =>
        /\ summary.pending = <<CountStatus(last_call.project, "pending")>>
        /\ summary.updated = <<CountStatus(last_call.project, "updated")>>
        /\ summary.skipped = <<CountStatus(last_call.project, "skipped")>>
        /\ summary.error = <<CountStatus(last_call.project, "error")>>
        /\ summary.total = <<CountStatus(last_call.project, "pending")
                             + CountStatus(last_call.project, "updated")
                             + CountStatus(last_call.project, "skipped")
                             + CountStatus(last_call.project, "error")>>

\* C30: add_tasks(paths, B) and clear_project_tasks(B) leave the tasks of
\* every other project untouched: for every project A other than B,
\* get_task_summary(A) returns the same counts before and after the call,
\* whatever paths are passed.
C30_OtherProjectsUntouched ==
    [][(/\ tcalls' = tcalls + 1
        /\ last_call'.op \in {"add_tasks", "clear_project_tasks"}) =>
            \A A \in Projects \ {last_call'.project} :
                GetTaskSummary(db', A) = GetTaskSummary(db, A)]_vars

====
